---- MODULE Spec2Model ----
(***************************************************************************)
(* Social-Media-Analytics-Platform: the analytic queries of                *)
(* analytics/content.py, analytics/engagement.py and analytics/network.py  *)
(* over the tables of database/models.py.                                  *)
(*                                                                         *)
(* The tables are the state.  Rows are inserted by the ingestion layer     *)
(* (scripts/populate_db.py); the analyzers read the populated tables and   *)
(* leave their result in a result variable.  SQL is modelled by its        *)
(* relational meaning: a join is the set of joined rows, COUNT(DISTINCT x) *)
(* the cardinality of the set of non-NULL x over the rows of the group,    *)
(* ROUND(x, 2) rounding to hundredths, and the order of rows that tie on   *)
(* the ORDER BY key a nondeterministic choice.  NULL is 0 for ids (ids     *)
(* start at 1).  Decimals are integers in hundredths.  Timestamps count    *)
(* ticks, TicksPerDay of them to the day.                                  *)
(***************************************************************************)
EXTENDS Integers, Sequences, FiniteSets, TLC

VARIABLES posts, comments, likes, follows,
          threadResult, topResult, engagementResult, networkResult, networkReport,
          controversialResult, timelineResult, contentReport, scoreCase,
          summaryResult, cteRun

vars == <<posts, comments, likes, follows,
          threadResult, topResult, engagementResult, networkResult, networkReport,
          controversialResult, timelineResult, contentReport, scoreCase,
                   summaryResult, cteRun>>

tables == <<posts, comments, likes, follows>>

-----------------------------------------------------------------------------
(* Bounds of the model *)

NumUsers == 4
MaxPosts == 2
MaxThreadRows == 6
MaxEngagementRows == 5
MaxEngagementPosts == 3
MaxTopRows == 4
MaxNetworkRows == 4
MaxControversyRows == 6
MaxTimelineRows == 5
MaxReportRows == 4
MaxSummaryRows == 5
MaxCycleRows == 4
MaxScoreSquare == 3
MaxScoreCount == 3
Now == 2
MaxMinDepth == 3
TicksPerDay == 2

Users == 1..NumUsers

NULL == 0

(* The first tick of a day, which is also the length of that many days. *)
Instant(day) == day * TicksPerDay

(* DATE(t): the day tick t falls on. *)
DateOf(t) == t \div TicksPerDay

(* Timestamps a row can carry: stale (day 0) or written today. *)
TimeValues == {Instant(0), Instant(Now)}

-----------------------------------------------------------------------------
(* Helpers of the relational reading *)

Max(S) == CHOOSE x \in S : \A y \in S : y <= x

(* SUM(f) over the rows S; f is a function on the rows. *)
RECURSIVE SumOver(_, _)
SumOver(S, f) ==
    IF S = {} THEN 0
    ELSE LET x == CHOOSE y \in S : TRUE
         IN  f[x] + SumOver(S \ {x}, f)

Range(s) == {s[i] : i \in 1..Len(s)}

(* COUNT(DISTINCT x): the number of distinct non-NULL values. *)
CountDistinct(values) == Cardinality(values \ {NULL})

(* ROUND(num / den, 2) in hundredths, halves rounded away from zero
   (num >= 0, den > 0). *)
Round2(num, den) == (200 * num + den) \div (2 * den)

(* ORDER BY: the orders of the rows of S in which no row precedes one that
   the sort key puts strictly ahead of it; rows that tie on the key may come
   in either order.  before is the set of pairs <<a, b>> with a strictly
   ahead of b. *)
RECURSIVE OrderBy(_, _)
OrderBy(S, before) ==
    IF S = {} THEN {<<>>}
    ELSE UNION {{<<x>> \o rest : rest \in OrderBy(S \ {x}, before)} :
                  x \in {y \in S : \A z \in S : <<z, y>> \notin before}}

-----------------------------------------------------------------------------
(* State after construction: users populated, every other table empty, no
   analyzer called. *)

NoCteRun == [state |-> "idle", min_depth |-> 0, work |-> {}, rows |-> {}, rounds |-> 0]

NoScoreCase == [applied |-> FALSE, stats |-> <<>>, scores |-> <<>>]

NoTopResult ==
    [called |-> FALSE, days |-> 0, limit |-> 0, status |-> "not_run", rows |-> <<>>]

NoThreadResult == [called |-> FALSE, min_depth |-> 0, rows |-> <<>>]

Init ==
    /\ posts = <<>>
    /\ comments = <<>>
    /\ likes = <<>>
    /\ follows = {}
    /\ threadResult = NoThreadResult
    /\ topResult = NoTopResult
    /\ engagementResult = [called |-> FALSE, days |-> 0, rows |-> <<>>]
    /\ networkResult = [called |-> FALSE, rows |-> {}]
    /\ networkReport = [status |-> "not_run", ghost_followers |-> {}, num_users |-> 0,
                        num_edges |-> 0, max_possible_edges |-> 0]
    /\ controversialResult = [called |-> FALSE, min_comments |-> 0, min_stddev |-> 0,
                              rows |-> <<>>]
    /\ timelineResult = [called |-> FALSE, post_id |-> 0, rows |-> <<>>]
    /\ contentReport = [status |-> "not_run"]
    /\ scoreCase = NoScoreCase
    /\ summaryResult = [called |-> FALSE, rows |-> <<>>]
    /\ cteRun = NoCteRun

(* The analyzers run against a populated, read-only snapshot: ingestion
   precedes analysis. *)
SnapshotOpen ==
    /\ ~threadResult.called
    /\ ~topResult.called
    /\ ~engagementResult.called
    /\ ~networkResult.called
    /\ networkReport.status = "not_run"
    /\ ~controversialResult.called
    /\ ~timelineResult.called
    /\ contentReport.status = "not_run"
    /\ scoreCase = NoScoreCase
    /\ ~summaryResult.called
    /\ cteRun.state = "idle"

-----------------------------------------------------------------------------
(* Ingestion: rows of the tables of database/models.py *)

AddPost(user, time) ==
    /\ SnapshotOpen
    /\ posts' = Append(posts, [user_id |-> user, post_time |-> time])
    /\ UNCHANGED <<comments, likes, follows, threadResult, topResult,
                   engagementResult, networkResult, networkReport,
                   controversialResult, timelineResult, contentReport, scoreCase,
                   summaryResult, cteRun>>

(* A comment on an existing post; a reply names a parent on the same post.
   Of comment_text the model keeps LENGTH(comment_text). *)
AddComment(post, user, parent, time, length) ==
    /\ SnapshotOpen
    /\ post \in 1..Len(posts)
    /\ \/ parent = NULL
       \/ /\ parent \in 1..Len(comments)
          /\ comments[parent].post_id = post
    /\ comments' = Append(comments,
                          [post_id |-> post, user_id |-> user,
                           parent_comment_id |-> parent, comment_time |-> time,
                           comment_length |-> length])
    /\ UNCHANGED <<posts, likes, follows, threadResult, topResult,
                   engagementResult, networkResult, networkReport,
                   controversialResult, timelineResult, contentReport, scoreCase,
                   summaryResult, cteRun>>

(* A like of a post or of a comment, never both (chk_like_target).  unq_like
   spans the NULL target column, so it does not stop a second like of the same
   post by the same user. *)
AddLike(user, post, comment, time) ==
    /\ SnapshotOpen
    /\ \/ post \in 1..Len(posts) /\ comment = NULL
       \/ post = NULL /\ comment \in 1..Len(comments)
    /\ likes' = Append(likes, [user_id |-> user, post_id |-> post,
                               comment_id |-> comment, like_time |-> time])
    /\ UNCHANGED <<posts, comments, follows, threadResult, topResult,
                   engagementResult, networkResult, networkReport,
                   controversialResult, timelineResult, contentReport, scoreCase,
                   summaryResult, cteRun>>

(* A follow edge: (follower_id, followee_id) is the primary key and
   chk_no_self_follow forbids self-loops. *)
AddFollow(follower, followee, time) ==
    /\ SnapshotOpen
    /\ follower # followee
    /\ \A f \in follows : ~(f.follower_id = follower /\ f.followee_id = followee)
    /\ follows' = follows \cup {[follower_id |-> follower, followee_id |-> followee,
                                 follow_time |-> time]}
    /\ UNCHANGED <<posts, comments, likes, threadResult, topResult,
                   engagementResult, networkResult, networkReport,
                   controversialResult, timelineResult, contentReport, scoreCase,
                   summaryResult, cteRun>>

(* The order in which the population script fills the tables: posts, then
   follows, then comments, then likes. *)
PostsPhase == follows = {} /\ comments = <<>> /\ likes = <<>>

FollowsPhase == comments = <<>> /\ likes = <<>>

CommentsPhase == likes = <<>>

(* The script walks the posts in order when it writes their comments and
   likes: a new row is for the post of the last row or a later one, and
   within a post for the same user or a later one. *)
InPostOrder(rows, post, user) ==
    IF rows = <<>> THEN TRUE
    ELSE LET last == rows[Len(rows)]
         IN  last.post_id < post \/ (last.post_id = post /\ last.user_id <= user)

RowCount == Len(posts) + Len(comments) + Len(likes) + Cardinality(follows)

(* x LEFT JOIN matches: the matching rows, or one all-NULL row when none. *)
LeftJoin(matches) == IF matches = {} THEN {NULL} ELSE matches

-----------------------------------------------------------------------------
(* ContentAnalyzer.analyze_thread_depth *)

(* Base case of the recursive CTE: top-level comments, depth 1. *)
BaseDepth == 1

(* Variant: the recursive term forgets the + 1. *)
ReplyDepthSame(d) == d

(* Recursive case: a reply is one deeper than the row it joins. *)
ReplyDepth(d) == d + 1

ThreadRowOf(c, depth) ==
    [comment_id |-> c, post_id |-> comments[c].post_id,
     user_id |-> comments[c].user_id,
     parent_comment_id |-> comments[c].parent_comment_id, depth |-> depth]

(* Variant: the anchor term without its WHERE, every comment at depth 1. *)
ThreadBaseAll == {ThreadRowOf(c, BaseDepth) : c \in 1..Len(comments)}

(* SELECT ... FROM comments WHERE parent_comment_id IS NULL *)
ThreadBase ==
    {ThreadRowOf(c, BaseDepth) :
        c \in {x \in 1..Len(comments) : comments[x].parent_comment_id = NULL}}

(* One round of the recursive term: comments c JOIN the rows of the last
   round ON c.parent_comment_id = ct.comment_id. *)
ThreadStep(work) ==
    {ThreadRowOf(j[1], ReplyDepth(j[2].depth)) :
        j \in {k \in (1..Len(comments)) \X work :
                  comments[k[1]].parent_comment_id = k[2].comment_id}}

(* WITH RECURSIVE ... UNION ALL: rounds are added until one is empty.  The
   rows carry comment_id and depth, so the set keeps every row UNION ALL
   produces over a table in which a comment has one parent. *)
RECURSIVE ThreadIterate(_, _)
ThreadIterate(work, acc) ==
    IF work = {} THEN acc
    ELSE LET next == ThreadStep(work)
         IN  ThreadIterate(next, acc \cup next)

comment_threads == ThreadIterate(ThreadBase, ThreadBase)

(* posts p JOIN comment_threads ct ON p.post_id = ct.post_id JOIN users u,
   the group of post p (every comment has its user). *)
ThreadGroupIn(threads, p) == {ct \in threads : ct.post_id = p}

ThreadGroup(p) == ThreadGroupIn(comment_threads, p)

(* Variant: the average taken over the leaf comments only. *)
AvgDepthRowsLeaves(g) ==
    {ct \in g : \A o \in g : o.parent_comment_id # ct.comment_id}

(* The rows AVG(ct.depth) ranges over: every row of the group. *)
AvgDepthRows(g) == g

(* ROUND(AVG(ct.depth), 2), in hundredths *)
AvgThreadDepth(g) ==
    Round2(SumOver(AvgDepthRows(g), [ct \in AvgDepthRows(g) |-> ct.depth]),
           Cardinality(AvgDepthRows(g)))

ThreadSelectIn(threads, p) ==
    LET g == ThreadGroupIn(threads, p)
    IN  [post_id |-> p,
         total_comments |-> CountDistinct({ct.comment_id : ct \in g}),
         max_thread_depth |-> Max({ct.depth : ct \in g}),
         avg_thread_depth |-> AvgThreadDepth(g),
         unique_participants |-> CountDistinct({ct.user_id : ct \in g})]

ThreadSelect(p) == ThreadSelectIn(comment_threads, p)

(* Variant: HAVING with > in place of >=. *)
ThreadHavingStrict(row, min_depth) == row.max_thread_depth > min_depth

(* HAVING MAX(ct.depth) >= :min_depth *)
ThreadHaving(row, min_depth) == row.max_thread_depth >= min_depth

(* ORDER BY max_thread_depth DESC, total_comments DESC *)
ThreadBefore(a, b) ==
    \/ a.max_thread_depth > b.max_thread_depth
    \/ /\ a.max_thread_depth = b.max_thread_depth
       /\ a.total_comments > b.total_comments

ThreadOrder(rows) == {pr \in rows \X rows : ThreadBefore(pr[1], pr[2])}

(* GROUP BY p.post_id over the join with the rows of the CTE, then HAVING *)
ThreadRowsOf(threads, min_depth) ==
    {row \in {ThreadSelectIn(threads, p) :
                 p \in {q \in 1..Len(posts) : ThreadGroupIn(threads, q) # {}}} :
        ThreadHaving(row, min_depth)}

ThreadRows(min_depth) == ThreadRowsOf(comment_threads, min_depth)

AnalyzeThreadDepth(min_depth) ==
    /\ \E ordered \in OrderBy(ThreadRows(min_depth), ThreadOrder(ThreadRows(min_depth))) :
          threadResult' = [called |-> TRUE, min_depth |-> min_depth, rows |-> ordered]
    /\ UNCHANGED <<tables, topResult, engagementResult, networkResult, networkReport,
                   controversialResult, timelineResult, contentReport, scoreCase,
                   summaryResult, cteRun>>

(* Inputs of the thread analysis: posts of one author, comments and replies
   by two users, written today; min_depth from 0, which no thread is
   shallower than, up. *)
ThreadUsers == {1, 2}

MinDepths == 0..MaxMinDepth

NextThread ==
    \/ RowCount < MaxThreadRows /\ Len(posts) < MaxPosts /\ AddPost(1, Instant(Now))
    \/ \E p \in 1..MaxPosts, u \in ThreadUsers, parent \in 0..MaxThreadRows :
          RowCount < MaxThreadRows /\ AddComment(p, u, parent, Instant(Now), 1)
    \/ \E d \in MinDepths :
          (threadResult.called => d = threadResult.min_depth) /\ AnalyzeThreadDepth(d)

SpecThread == Init /\ [][NextThread]_vars

-----------------------------------------------------------------------------
(* EngagementAnalyzer.get_post_engagement *)

(* start_date = datetime.utcnow() - timedelta(days=days) *)
StartDate(days) == Instant(Now) - Instant(days)

(* posts p LEFT JOIN likes l LEFT JOIN comments c JOIN users u LEFT JOIN
   follows f, the joined rows of post p: <<like_id, comment_id, follower_id>>
   (the followee being fixed, follower_id is the key of the follows row). *)
PostStatsJoin(p) ==
    LeftJoin({l \in 1..Len(likes) : likes[l].post_id = p})
      \X LeftJoin({c \in 1..Len(comments) : comments[c].post_id = p})
      \X LeftJoin({f.follower_id : f \in {g \in follows : g.followee_id = posts[p].user_id}})

LikeUserOf(l) == IF l = NULL THEN NULL ELSE likes[l].user_id

PostStats(p) ==
    LET j == PostStatsJoin(p)
    IN  [post_id |-> p,
         author_id |-> posts[p].user_id,
         post_time |-> posts[p].post_time,
         like_count |-> CountDistinct({LikeUserOf(r[1]) : r \in j}),
         comment_count |-> CountDistinct({r[2] : r \in j}),
         follower_count |-> CountDistinct({r[3] : r \in j})]

(* Variant: a zero divisor coerced to a rate of 0 instead of NULL. *)
EngagementRateZeroForNull(st) ==
    IF st.follower_count = 0 THEN [null |-> FALSE, value |-> 0]
    ELSE [null |-> FALSE,
          value |-> Round2((st.like_count + st.comment_count) * 100,
                           st.follower_count)]

(* ROUND((like_count + comment_count) * 100.0 / NULLIF(follower_count, 0), 2):
   NULL when the divisor is NULL, else hundredths of a percent. *)
EngagementRate(st) ==
    IF st.follower_count = 0 THEN [null |-> TRUE, value |-> 0]
    ELSE [null |-> FALSE,
          value |-> Round2((st.like_count + st.comment_count) * 100,
                           st.follower_count)]

(* RANK() OVER (ORDER BY (like_count + comment_count) DESC) *)
EngagementRank(st, all) ==
    1 + Cardinality({o \in all : o.like_count + o.comment_count
                                    > st.like_count + st.comment_count})

(* WHERE p.post_time >= :start_date *)
PostStatsRows(days) ==
    {PostStats(p) : p \in {q \in 1..Len(posts) : posts[q].post_time >= StartDate(days)}}

EngagementSelect(st, all) ==
    [post_id |-> st.post_id, author_id |-> st.author_id, post_time |-> st.post_time,
     like_count |-> st.like_count, comment_count |-> st.comment_count,
     follower_count |-> st.follower_count,
     engagement_rate |-> EngagementRate(st),
     engagement_rank |-> EngagementRank(st, all)]

(* ORDER BY engagement_rate DESC, NULLs where the configured engine
   (postgresql) puts them under DESC: first. *)
EngagementBefore(a, b) ==
    \/ a.engagement_rate.null /\ ~b.engagement_rate.null
    \/ /\ ~a.engagement_rate.null /\ ~b.engagement_rate.null
       /\ a.engagement_rate.value > b.engagement_rate.value

EngagementOrder(rows) == {pr \in rows \X rows : EngagementBefore(pr[1], pr[2])}

EngagementRows(days) ==
    {EngagementSelect(st, PostStatsRows(days)) : st \in PostStatsRows(days)}

GetPostEngagement(days) ==
    /\ \E ordered \in OrderBy(EngagementRows(days), EngagementOrder(EngagementRows(days))) :
          engagementResult' = [called |-> TRUE, days |-> days, rows |-> ordered]
    /\ UNCHANGED <<tables, threadResult, topResult, networkResult, networkReport,
                   controversialResult, timelineResult, contentReport, scoreCase,
                   summaryResult, cteRun>>

(* Inputs of the engagement analysis: up to MaxEngagementPosts posts by two
   authors, stale or fresh;
   top-level comments by one user and post likes by two, written post by
   post; follow edges from
   any user towards the first author; a lookback of one day or of the whole
   history.  The analyzer is called once on the populated snapshot. *)
EngagementAuthors == {1, 2}

EngagementLikers == {2, 3}

LookbackDays == {1, Now + 1}

NextEngagement ==
    \/ \E u \in EngagementAuthors, t \in TimeValues :
          /\ RowCount < MaxEngagementRows /\ Len(posts) < MaxEngagementPosts
          /\ PostsPhase /\ AddPost(u, t)
    \/ \E p \in 1..MaxEngagementPosts :
          /\ RowCount < MaxEngagementRows
          /\ CommentsPhase /\ InPostOrder(comments, p, 2)
          /\ AddComment(p, 2, NULL, Instant(Now), 1)
    \/ \E p \in 1..MaxEngagementPosts, u \in EngagementLikers :
          /\ RowCount < MaxEngagementRows
          /\ InPostOrder(likes, p, u) /\ AddLike(u, p, NULL, Instant(Now))
    \/ \E a \in Users :
          /\ RowCount < MaxEngagementRows
          /\ FollowsPhase /\ AddFollow(a, 1, Instant(Now))
    \/ \E days \in LookbackDays :
          ~engagementResult.called /\ GetPostEngagement(days)

SpecEngagement == Init /\ [][NextEngagement]_vars

-----------------------------------------------------------------------------
(* EngagementAnalyzer.get_user_engagement_summary *)

(* users u LEFT JOIN posts p LEFT JOIN likes l ON p.post_id = l.post_id
   LEFT JOIN comments c ON p.post_id = c.post_id: the joined rows of user u,
   <<post_id, like_id, comment_id>>.  A NULL post matches no like and no
   comment. *)
SummaryPostJoin(u) ==
    UNION {{p} \X LeftJoin({l \in 1..Len(likes) : p # NULL /\ likes[l].post_id = p})
               \X LeftJoin({c \in 1..Len(comments) : p # NULL /\ comments[c].post_id = p}) :
             p \in LeftJoin({q \in 1..Len(posts) : posts[q].user_id = u})}

(* ... LEFT JOIN follows f ON u.user_id = f.followee_id LEFT JOIN follows fl
   ON u.user_id = fl.follower_id: <<post_id, like_id, comment_id,
   follower_id of f, followee_id of fl>>. *)
SummaryJoin(u) ==
    {<<r[1], r[2], r[3], f, fl>> :
        r \in SummaryPostJoin(u),
        f \in LeftJoin({g.follower_id : g \in {h \in follows : h.followee_id = u}}),
        fl \in LeftJoin({g.followee_id : g \in {h \in follows : h.follower_id = u}})}

(* Variant: a zero divisor coerced to a rate of 0 instead of NULL. *)
SummaryRateZeroForNull(count, follower_count) ==
    IF follower_count = 0 THEN [null |-> FALSE, value |-> 0]
    ELSE [null |-> FALSE, value |-> Round2(count * 100, follower_count)]

(* ROUND(count * 100.0 / NULLIF(follower_count, 0), 2) *)
SummaryRate(count, follower_count) ==
    IF follower_count = 0 THEN [null |-> TRUE, value |-> 0]
    ELSE [null |-> FALSE, value |-> Round2(count * 100, follower_count)]

SummarySelect(u) ==
    LET j == SummaryJoin(u)
        likes_received == CountDistinct({r[2] : r \in j})
        comments_received == CountDistinct({r[3] : r \in j})
        follower_count == CountDistinct({r[4] : r \in j})
    IN  [user_id |-> u,
         post_count |-> CountDistinct({r[1] : r \in j}),
         likes_received |-> likes_received,
         comments_received |-> comments_received,
         follower_count |-> follower_count,
         following_count |-> CountDistinct({r[5] : r \in j}),
         avg_like_rate |-> SummaryRate(likes_received, follower_count),
         avg_comment_rate |-> SummaryRate(comments_received, follower_count)]

(* GROUP BY u.user_id, u.username *)
SummaryRows == {SummarySelect(u) : u \in Users}

(* ORDER BY likes_received DESC *)
SummaryOrder(rows) ==
    {pr \in rows \X rows : pr[1].likes_received > pr[2].likes_received}

GetUserEngagementSummary ==
    /\ \E ordered \in OrderBy(SummaryRows, SummaryOrder(SummaryRows)) :
          summaryResult' = [called |-> TRUE, rows |-> ordered]
    /\ UNCHANGED <<tables, threadResult, topResult, engagementResult, networkResult,
                   networkReport, controversialResult, timelineResult, contentReport,
                   scoreCase, cteRun>>

(* Inputs of the summary: posts by two authors; follow edges from any user
   towards the first author and from the first author to the second;
   top-level comments by one user and likes by another, of a post or of the
   first comment, written post by post.  The summary is asked once. *)
NextSummary ==
    \/ \E u \in EngagementAuthors :
          /\ RowCount < MaxSummaryRows /\ Len(posts) < MaxPosts
          /\ PostsPhase /\ AddPost(u, Instant(Now))
    \/ \E a \in Users, b \in EngagementAuthors :
          /\ RowCount < MaxSummaryRows
          /\ b = 1 \/ a = 1
          /\ FollowsPhase /\ AddFollow(a, b, Instant(Now))
    \/ \E post \in 1..MaxPosts :
          /\ RowCount < MaxSummaryRows
          /\ CommentsPhase /\ InPostOrder(comments, post, 3)
          /\ AddComment(post, 3, NULL, Instant(Now), 1)
    \/ \E post \in 1..MaxPosts :
          /\ RowCount < MaxSummaryRows
          /\ InPostOrder(likes, post, 4) /\ AddLike(4, post, NULL, Instant(Now))
    \/ /\ RowCount < MaxSummaryRows
       /\ likes = <<>> /\ AddLike(4, NULL, 1, Instant(Now))
    \/ ~summaryResult.called /\ GetUserEngagementSummary

SpecSummary == Init /\ [][NextSummary]_vars

-----------------------------------------------------------------------------
(* ContentAnalyzer.identify_controversial_posts *)

(* The comments of post p: one group of GROUP BY post_id. *)
CommentGroup(p) == {c \in 1..Len(comments) : comments[c].post_id = p}

SumLength(g) == SumOver(g, [c \in g |-> comments[c].comment_length])

SumSquaredLength(g) ==
    SumOver(g, [c \in g |-> comments[c].comment_length * comments[c].comment_length])

(* AVG(LENGTH(x)) over the comments g, kept as the fraction sum / count. *)
AvgLength(g) == [num |-> SumLength(g), den |-> Cardinality(g)]

(* STDDEV(LENGTH(comment_text)): on the configured engine (postgresql) the
   sample standard deviation, divisor N - 1, and NULL for a single value.
   The root of a fraction is kept by its square, square_num / square_den. *)
StddevCommentLength(g) ==
    LET n == Cardinality(g)
    IN  IF n < 2 THEN [null |-> TRUE, square_num |-> 0, square_den |-> 1]
        ELSE [null |-> FALSE,
              square_num |-> n * SumSquaredLength(g) - SumLength(g) * SumLength(g),
              square_den |-> n * (n - 1)]

(* WITH comment_stats AS: GROUP BY post_id, HAVING a count of at least
   :min_comments *)
comment_stats(min_comments) ==
    {[post_id |-> p,
      total_comments |-> Cardinality(CommentGroup(p)),
      avg_comment_length |-> AvgLength(CommentGroup(p)),
      stddev_comment_length |-> StddevCommentLength(CommentGroup(p)),
      unique_commenters |-> CountDistinct({comments[c].user_id : c \in CommentGroup(p)})] :
        p \in {q \in {comments[c].post_id : c \in 1..Len(comments)} :
                  Cardinality(CommentGroup(q)) >= min_comments}}

(* comments c1 JOIN comments c2 ON c1.comment_id = c2.parent_comment_id,
   the group of c1.post_id = p: the replies c2 to comments of post p. *)
RepliesUnder(p) ==
    {c2 \in 1..Len(comments) :
        /\ comments[c2].parent_comment_id # NULL
        /\ comments[comments[c2].parent_comment_id].post_id = p}

(* LEFT JOIN reply_depth rd, COALESCE(rd.reply_count, 0) and
   COALESCE(rd.avg_reply_length, 0) *)
ReplyCount(p) == Cardinality(RepliesUnder(p))

AvgReplyLength(p) ==
    IF RepliesUnder(p) = {} THEN [num |-> 0, den |-> 1] ELSE AvgLength(RepliesUnder(p))

(* Variant: the deviation divided by the number of comments. *)
ControversyScorePerComment(cs) ==
    [null |-> cs.stddev_comment_length.null,
     square_num |-> cs.stddev_comment_length.square_num,
     square_den |-> cs.stddev_comment_length.square_den
                      * cs.total_comments * cs.total_comments]

(* (cs.stddev_comment_length * cs.total_comments) AS controversy_score: NULL
   when the deviation is NULL; its square is the deviation's square times the
   square of the count. *)
ControversyScore(cs) ==
    [null |-> cs.stddev_comment_length.null,
     square_num |-> cs.stddev_comment_length.square_num
                      * cs.total_comments * cs.total_comments,
     square_den |-> cs.stddev_comment_length.square_den]

(* x >= bound for a root x >= 0 kept by its square: NULL compares to nothing. *)
RootAtLeast(x, bound) ==
    /\ ~x.null
    /\ \/ bound <= 0
       \/ x.square_num >= bound * bound * x.square_den

(* a > b for two roots kept by their squares *)
RootGreater(a, b) == a.square_num * b.square_den > b.square_num * a.square_den

ControversialSelect(cs) ==
    [post_id |-> cs.post_id,
     total_comments |-> cs.total_comments,
     unique_commenters |-> cs.unique_commenters,
     avg_comment_length |-> cs.avg_comment_length,
     stddev_comment_length |-> cs.stddev_comment_length,
     reply_count |-> ReplyCount(cs.post_id),
     avg_reply_length |-> AvgReplyLength(cs.post_id),
     controversy_score |-> ControversyScore(cs)]

(* posts p JOIN comment_stats cs ... WHERE cs.stddev_comment_length >= :min_stddev *)
ControversialRows(min_comments, min_stddev) ==
    {ControversialSelect(cs) :
        cs \in {x \in comment_stats(min_comments) :
                   RootAtLeast(x.stddev_comment_length, min_stddev)}}

(* ORDER BY controversy_score DESC *)
ControversialOrder(rows) ==
    {pr \in rows \X rows : RootGreater(pr[1].controversy_score, pr[2].controversy_score)}

IdentifyControversialPosts(min_comments, min_stddev) ==
    /\ \E ordered \in OrderBy(ControversialRows(min_comments, min_stddev),
                              ControversialOrder(ControversialRows(min_comments, min_stddev))) :
          controversialResult' = [called |-> TRUE, min_comments |-> min_comments,
                                  min_stddev |-> min_stddev, rows |-> ordered]
    /\ UNCHANGED <<tables, threadResult, topResult, engagementResult, networkResult,
                   networkReport, timelineResult, contentReport, scoreCase,
                   summaryResult, cteRun>>

(* Inputs of the controversy analysis: posts of one author; comments by one
   user, of three lengths, written post by post, each top-level or a reply to
   the comment written just before it; thresholds of one or two comments and
   of a deviation of 0 or 2.  The analyzer is called once on the populated
   snapshot. *)
CommentLengths == {1, 3, 5}

MinCommentsValues == {1, 2}

MinStddevValues == {0, 2}

NextControversy ==
    \/ /\ RowCount < MaxControversyRows /\ Len(posts) < MaxPosts
       /\ PostsPhase /\ AddPost(1, Instant(Now))
    \/ \E post \in 1..MaxPosts, length \in CommentLengths,
          parent \in {NULL, Len(comments)} :
          /\ RowCount < MaxControversyRows
          /\ InPostOrder(comments, post, 2)
          /\ AddComment(post, 2, parent, Instant(Now), length)
    \/ \E min_comments \in MinCommentsValues, min_stddev \in MinStddevValues :
          /\ ~controversialResult.called
          /\ IdentifyControversialPosts(min_comments, min_stddev)

SpecControversy == Init /\ [][NextControversy]_vars

-----------------------------------------------------------------------------
(* ContentAnalyzer.get_post_activity_timeline *)

(* First branch of the UNION ALL: the comments of the post, like_count NULL.
   row_id tells apart rows of the bag that agree on every column. *)
TimelineComments(post_id) ==
    {[activity_type |-> "comment", row_id |-> c,
      timestamp |-> comments[c].comment_time,
      username |-> comments[c].user_id,
      like_count |-> NULL] :
        c \in {x \in 1..Len(comments) : comments[x].post_id = post_id}}

(* Variant: a running count, the likes of the day up to the row's own time. *)
LikePartitionRunning(l, selected) ==
    {k \in selected : /\ DateOf(likes[k].like_time) = DateOf(likes[l].like_time)
                      /\ likes[k].like_time <= likes[l].like_time}

(* OVER (PARTITION BY DATE(l.like_time)): the selected likes of the day of
   like l. *)
LikePartition(l, selected) ==
    {k \in selected : DateOf(likes[k].like_time) = DateOf(likes[l].like_time)}

(* Second branch: the likes of the post, each with the COUNT over its
   partition. *)
TimelineLikes(post_id) ==
    LET selected == {x \in 1..Len(likes) : likes[x].post_id = post_id}
    IN  {[activity_type |-> "like", row_id |-> l,
          timestamp |-> likes[l].like_time,
          username |-> likes[l].user_id,
          like_count |-> Cardinality(LikePartition(l, selected))] : l \in selected}

TimelineRows(post_id) == TimelineComments(post_id) \cup TimelineLikes(post_id)

(* ORDER BY timestamp *)
TimelineOrder(rows) == {pr \in rows \X rows : pr[1].timestamp < pr[2].timestamp}

GetPostActivityTimeline(post_id) ==
    /\ \E ordered \in OrderBy(TimelineRows(post_id), TimelineOrder(TimelineRows(post_id))) :
          timelineResult' = [called |-> TRUE, post_id |-> post_id, rows |-> ordered]
    /\ UNCHANGED <<tables, threadResult, topResult, engagementResult, networkResult,
                   networkReport, controversialResult, contentReport, scoreCase,
                   summaryResult, cteRun>>

(* Inputs of the timeline: posts of one author; top-level comments by one
   user and post likes by two, written post by post, each late yesterday,
   first thing today or later today.  The timeline is asked once, for a post
   or for an id no post has. *)
TimelineTimes == {Instant(Now) - 1, Instant(Now), Instant(Now) + 1}

NextTimeline ==
    \/ /\ RowCount < MaxTimelineRows /\ Len(posts) < MaxPosts
       /\ PostsPhase /\ AddPost(1, Instant(Now - 1))
    \/ \E post \in 1..MaxPosts, t \in TimelineTimes :
          /\ RowCount < MaxTimelineRows
          /\ CommentsPhase /\ InPostOrder(comments, post, 2)
          /\ AddComment(post, 2, NULL, t, 1)
    \/ \E post \in 1..MaxPosts, u \in EngagementLikers, t \in TimelineTimes :
          /\ RowCount < MaxTimelineRows
          /\ InPostOrder(likes, post, u) /\ AddLike(u, post, NULL, t)
    \/ \E post_id \in 1..(MaxPosts + 1) :
          ~timelineResult.called /\ GetPostActivityTimeline(post_id)

SpecTimeline == Init /\ [][NextTimeline]_vars

-----------------------------------------------------------------------------
(* ContentAnalyzer.get_top_contributors *)

(* The bound :days stands inside the literal INTERVAL ':days DAYS'.  text()
   makes a bind parameter of every :name, quoted or not, and the driver of
   the configured engine writes the integer into the statement in decimal,
   which the server then reads as the interval's number of days. *)
RECURSIVE RenderInt(_)
RenderInt(n) == IF n < 10 THEN <<n>> ELSE Append(RenderInt(n \div 10), n % 10)

RECURSIVE ParseInt(_)
ParseInt(digits) ==
    IF Len(digits) = 0 THEN 0
    ELSE 10 * ParseInt(SubSeq(digits, 1, Len(digits) - 1)) + digits[Len(digits)]

IntervalDays(days) == ParseInt(RenderInt(days))

(* Variant: the interval filter ignores the bound. *)
InWindowAlways(time, days) == TRUE

(* x_time >= NOW() - INTERVAL ':days DAYS' *)
InWindow(time, days) == time >= Instant(Now) - Instant(IntervalDays(days))

(* users u LEFT JOIN posts p LEFT JOIN comments c LEFT JOIN likes l LEFT JOIN
   follows f LEFT JOIN follows f2, each within the window: the joined rows of
   user u, <<post_id, comment_id, like_id, followee_id of f, follower_id of f2>>. *)
UserActivityJoin(u, days) ==
    LeftJoin({p \in 1..Len(posts) :
                posts[p].user_id = u /\ InWindow(posts[p].post_time, days)})
      \X LeftJoin({c \in 1..Len(comments) :
                comments[c].user_id = u /\ InWindow(comments[c].comment_time, days)})
      \X LeftJoin({l \in 1..Len(likes) :
                likes[l].user_id = u /\ InWindow(likes[l].like_time, days)})
      \X LeftJoin({f.followee_id : f \in {g \in follows :
                g.follower_id = u /\ InWindow(g.follow_time, days)}})
      \X LeftJoin({f.follower_id : f \in {g \in follows :
                g.followee_id = u /\ InWindow(g.follow_time, days)}})

FollowTime(follower, followee) ==
    (CHOOSE f \in follows : f.follower_id = follower /\ f.followee_id = followee).follow_time

(* Variant: COUNT(x) without DISTINCT, one per joined row whose x is not NULL. *)
CountJoinedRows(j, col) == Cardinality({r \in j : r[col] # NULL})

(* COUNT(DISTINCT x) over column col of the joined rows. *)
CountDistinctColumn(j, col) == CountDistinct({r[col] : r \in j})

UserActivity(u, days) ==
    LET j == UserActivityJoin(u, days)
    IN  [user_id |-> u,
         post_count |-> CountDistinctColumn(j, 1),
         comment_count |-> CountDistinctColumn(j, 2),
         like_count |-> CountDistinctColumn(j, 3),
         new_following |->
             CountDistinct({IF r[4] # NULL /\ InWindow(FollowTime(u, r[4]), days)
                            THEN r[4] ELSE NULL : r \in j}),
         new_followers |->
             CountDistinct({IF r[5] # NULL /\ InWindow(FollowTime(r[5], u), days)
                            THEN r[5] ELSE NULL : r \in j})]

PostWeight == 3
CommentWeight == 2
LikeWeight == 1
FollowerWeight == 5

ActivityScore(ua) ==
    ua.post_count * PostWeight + ua.comment_count * CommentWeight
      + ua.like_count * LikeWeight + ua.new_followers * FollowerWeight

TopSelect(ua) ==
    [user_id |-> ua.user_id, post_count |-> ua.post_count,
     comment_count |-> ua.comment_count, like_count |-> ua.like_count,
     new_following |-> ua.new_following, new_followers |-> ua.new_followers,
     activity_score |-> ActivityScore(ua)]

(* ORDER BY activity_score DESC *)
TopBefore(a, b) == a.activity_score > b.activity_score

(* LIMIT :limit *)
Limit(rows, limit) ==
    SubSeq(rows, 1, IF limit < Len(rows) THEN limit ELSE Len(rows))

TopOrder(rows) == {pr \in rows \X rows : TopBefore(pr[1], pr[2])}

TopRows(days) == {TopSelect(UserActivity(u, days)) : u \in Users}

(* The method hands days and limit to the database as they come.  A
   negative LIMIT is refused by the server when it executes the statement,
   and read_sql raises the driver's error; otherwise the rows come back. *)
GetTopContributors(days, limit) ==
    /\ IF limit < 0
       THEN topResult' = [called |-> TRUE, days |-> days, limit |-> limit,
                          status |-> "DatabaseError", rows |-> <<>>]
       ELSE \E returned \in {Limit(ordered, limit) :
                                ordered \in OrderBy(TopRows(days), TopOrder(TopRows(days)))} :
               topResult' = [called |-> TRUE, days |-> days, limit |-> limit,
                             status |-> "ok", rows |-> returned]
    /\ UNCHANGED <<tables, threadResult, engagementResult, networkResult, networkReport,
                   controversialResult, timelineResult, contentReport, scoreCase,
                   summaryResult, cteRun>>

(* Inputs of the contributor ranking: activity of two of the users, stale or
   fresh, on the first post; the other users stay idle; a limit of one or two
   rows, or a negative one.  A caller that has a result repeats its call with
   the same parameters. *)
TopUsers == {1, 2}

TopLimits == {-1, 1, 2}

RepeatsCall(days, limit) ==
    topResult.called => (days = topResult.days /\ limit = topResult.limit)

NextTop ==
    \/ \E u \in TopUsers, t \in TimeValues :
          RowCount < MaxTopRows /\ Len(posts) < MaxPosts /\ AddPost(u, t)
    \/ \E u \in TopUsers, t \in TimeValues :
          RowCount < MaxTopRows /\ AddComment(1, u, NULL, t, 1)
    \/ \E u \in TopUsers, t \in TimeValues :
          RowCount < MaxTopRows /\ AddLike(u, 1, NULL, t)
    \/ \E a \in TopUsers, b \in TopUsers, t \in TimeValues :
          RowCount < MaxTopRows /\ AddFollow(a, b, t)
    \/ \E days \in LookbackDays, limit \in TopLimits :
          RepeatsCall(days, limit) /\ GetTopContributors(days, limit)

SpecTop == Init /\ [][NextTop]_vars

-----------------------------------------------------------------------------
(* NetworkAnalyzer *)

(* The methods class NetworkAnalyzer defines. *)
NetworkAnalyzerMethods ==
    {"__init__", "get_follower_network", "analyze_and_visualize_network"}

(* follows f JOIN users u1 JOIN users u2: one row per follow edge, both ends
   resolved to their (unique) usernames, here the user ids.  The frame's row
   order is not kept: the density reads only its length and its values. *)
FollowerNetwork ==
    {[follower_username |-> f.follower_id, followee_username |-> f.followee_id,
      follow_time |-> f.follow_time] : f \in follows}

GetFollowerNetwork ==
    /\ networkResult' = [called |-> TRUE, rows |-> FollowerNetwork]
    /\ UNCHANGED <<tables, threadResult, topResult, engagementResult, networkReport,
                   controversialResult, timelineResult, contentReport, scoreCase,
                   summaryResult, cteRun>>

NoReport(status) ==
    [status |-> status, ghost_followers |-> {}, num_users |-> 0, num_edges |-> 0,
     max_possible_edges |-> 0]

(* network_data[['follower_username', 'followee_username']].stack().nunique() *)
NumUsersIn(network_data) ==
    Cardinality({r.follower_username : r \in network_data}
                  \cup {r.followee_username : r \in network_data})

(* Lines 43-50: the density is num_edges / max_possible_edges, kept as the
   pair; a frame built from no rows has no columns to select. *)
DensityReport(network_data) ==
    IF network_data = {} THEN NoReport("KeyError")
    ELSE [status |-> "ok", ghost_followers |-> {},
          num_users |-> NumUsersIn(network_data),
          num_edges |-> Cardinality(network_data),
          max_possible_edges |-> NumUsersIn(network_data) * (NumUsersIn(network_data) - 1)]

(* The handler first calls self.identify_ghost_followers(), which the class
   does not define: the attribute lookup raises and nothing after it runs. *)
AnalyzeAndVisualizeNetwork ==
    /\ IF "identify_ghost_followers" \notin NetworkAnalyzerMethods
       THEN /\ networkReport' = NoReport("AttributeError")
            /\ UNCHANGED networkResult
       ELSE /\ networkResult' = [called |-> TRUE, rows |-> FollowerNetwork]
            /\ networkReport' = DensityReport(FollowerNetwork)
    /\ UNCHANGED <<tables, threadResult, topResult, engagementResult,
                   controversialResult, timelineResult, contentReport, scoreCase,
                   summaryResult, cteRun>>

NextNetwork ==
    \/ \E u \in Users : RowCount < MaxNetworkRows /\ Len(posts) < MaxPosts /\ AddPost(u, Instant(Now))
    \/ \E u \in Users : RowCount < MaxNetworkRows /\ AddLike(u, 1, NULL, Instant(Now))
    \/ \E a \in Users, b \in Users : RowCount < MaxNetworkRows /\ AddFollow(a, b, Instant(Now))
    \/ GetFollowerNetwork
    \/ AnalyzeAndVisualizeNetwork

SpecNetwork == Init /\ [][NextNetwork]_vars

-----------------------------------------------------------------------------
(* ContentAnalyzer.analyze_and_visualize_content and the demo run *)

DefaultMinDepth == 2
DefaultMinComments == 10
DefaultMinStddev == 2

(* The handler runs analyze_thread_depth(min_depth) and
   identify_controversial_posts() and makes a frame of each.  A frame made
   of no rows has no columns, and plot_thread_depth_distribution selects
   thread_df['max_thread_depth'] without looking: on an empty thread result
   the handler raises KeyError there and nothing after it runs.  Otherwise
   the plots and the prints go through, the controversial ones under their
   emptiness guard, and the timeline of the first returned post, which has
   a comment, is fetched and plotted. *)
AnalyzeAndVisualizeContent(min_depth) ==
    /\ \E thread_data \in OrderBy(ThreadRows(min_depth), ThreadOrder(ThreadRows(min_depth))),
          controversial_posts \in
              OrderBy(ControversialRows(DefaultMinComments, DefaultMinStddev),
                      ControversialOrder(ControversialRows(DefaultMinComments,
                                                           DefaultMinStddev))) :
          /\ threadResult' = [called |-> TRUE, min_depth |-> min_depth,
                              rows |-> thread_data]
          /\ controversialResult' = [called |-> TRUE, min_comments |-> DefaultMinComments,
                                     min_stddev |-> DefaultMinStddev,
                                     rows |-> controversial_posts]
          /\ IF thread_data = <<>>
             THEN /\ contentReport' = [status |-> "KeyError"]
                  /\ UNCHANGED timelineResult
             ELSE /\ contentReport' = [status |-> "ok"]
                  /\ \E timeline \in OrderBy(TimelineRows(thread_data[1].post_id),
                                             TimelineOrder(TimelineRows(thread_data[1].post_id))) :
                        timelineResult' = [called |-> TRUE,
                                           post_id |-> thread_data[1].post_id,
                                           rows |-> timeline]
    /\ UNCHANGED <<tables, topResult, engagementResult, networkResult, networkReport,
                   scoreCase,
                   summaryResult, cteRun>>

(* Inputs of the demo run: a snapshot of a few rows, none included: posts
   of one author, comments and replies by one user, post likes by another
   and follow edges among two users, written today; then one analysis, with
   the parameters the demo leaves at their defaults. *)
ReportUsers == {1, 2}

NextReport ==
    \/ /\ RowCount < MaxReportRows /\ Len(posts) < MaxPosts
       /\ PostsPhase /\ AddPost(1, Instant(Now))
    \/ \E a \in ReportUsers, b \in ReportUsers :
          /\ RowCount < MaxReportRows
          /\ FollowsPhase /\ AddFollow(a, b, Instant(Now))
    \/ \E post \in 1..MaxPosts, parent \in {NULL, Len(comments)} :
          /\ RowCount < MaxReportRows
          /\ CommentsPhase /\ InPostOrder(comments, post, 2)
          /\ AddComment(post, 2, parent, Instant(Now), 1)
    \/ \E post \in 1..MaxPosts :
          /\ RowCount < MaxReportRows
          /\ InPostOrder(likes, post, 3) /\ AddLike(3, post, NULL, Instant(Now))
    \/ SnapshotOpen /\ AnalyzeThreadDepth(DefaultMinDepth)
    \/ SnapshotOpen /\ IdentifyControversialPosts(DefaultMinComments, DefaultMinStddev)
    \/ SnapshotOpen /\ GetPostEngagement(Now + 1)
    \/ SnapshotOpen /\ GetFollowerNetwork
    \/ SnapshotOpen /\ AnalyzeAndVisualizeContent(DefaultMinDepth)
    \/ SnapshotOpen /\ AnalyzeAndVisualizeNetwork

SpecReport == Init /\ [][NextReport]_vars

-----------------------------------------------------------------------------
(* The evaluation of WITH RECURSIVE comment_threads, round by round *)

(* Any comments table the schema admits: parent_comment_id references
   comments.comment_id and nothing else, so a comment may name itself, a
   later comment or a member of a loop as its parent.  One post, one user. *)
CommentTables ==
    UNION {[1..n -> [post_id : {1}, user_id : {1}, parent_comment_id : 0..n,
                     comment_time : {Instant(Now)}, comment_length : {1}]] :
             n \in 0..MaxCycleRows}

InitCycle ==
    /\ posts = <<[user_id |-> 1, post_time |-> Instant(Now)]>>
    /\ comments \in CommentTables
    /\ likes = <<>>
    /\ follows = {}
    /\ threadResult = NoThreadResult
    /\ topResult = NoTopResult
    /\ engagementResult = [called |-> FALSE, days |-> 0, rows |-> <<>>]
    /\ networkResult = [called |-> FALSE, rows |-> {}]
    /\ networkReport = [status |-> "not_run", ghost_followers |-> {}, num_users |-> 0,
                        num_edges |-> 0, max_possible_edges |-> 0]
    /\ controversialResult = [called |-> FALSE, min_comments |-> 0, min_stddev |-> 0,
                              rows |-> <<>>]
    /\ timelineResult = [called |-> FALSE, post_id |-> 0, rows |-> <<>>]
    /\ contentReport = [status |-> "not_run"]
    /\ scoreCase = NoScoreCase
    /\ summaryResult = [called |-> FALSE, rows |-> <<>>]
    /\ cteRun = NoCteRun

(* No round can add rows once every comment has a row: more rounds than the
   table has comments are not run. *)
MaxCteRounds == MaxCycleRows + 1

(* The non-recursive term fills the result and the working table. *)
CteBase(min_depth) ==
    /\ cteRun.state = "idle"
    /\ cteRun' = [state |-> "running", min_depth |-> min_depth,
                  work |-> ThreadBase, rows |-> ThreadBase, rounds |-> 0]
    /\ UNCHANGED <<tables, threadResult, topResult, engagementResult, networkResult,
                   networkReport, controversialResult, timelineResult, contentReport,
                   scoreCase, summaryResult>>

(* One round: the recursive term joined with the working table; its rows
   are appended to the result and become the next working table. *)
CteRecurse ==
    /\ cteRun.state = "running"
    /\ cteRun.work # {}
    /\ cteRun.rounds < MaxCteRounds
    /\ LET next == ThreadStep(cteRun.work)
       IN  cteRun' = [cteRun EXCEPT !.work = next, !.rows = cteRun.rows \cup next,
                                    !.rounds = cteRun.rounds + 1]
    /\ UNCHANGED <<tables, threadResult, topResult, engagementResult, networkResult,
                   networkReport, controversialResult, timelineResult, contentReport,
                   scoreCase, summaryResult>>

(* The working table is empty: the outer SELECT runs over the result. *)
CteSelect ==
    /\ cteRun.state = "running"
    /\ cteRun.work = {}
    /\ cteRun' = [cteRun EXCEPT !.state = "done"]
    /\ LET rows == ThreadRowsOf(cteRun.rows, cteRun.min_depth)
       IN  \E ordered \in OrderBy(rows, ThreadOrder(rows)) :
              threadResult' = [called |-> TRUE, min_depth |-> cteRun.min_depth,
                               rows |-> ordered]
    /\ UNCHANGED <<tables, topResult, engagementResult, networkResult, networkReport,
                   controversialResult, timelineResult, contentReport, scoreCase,
                   summaryResult>>

CycleMinDepths == {BaseDepth, DefaultMinDepth}

NextCycle ==
    \/ \E d \in CycleMinDepths : CteBase(d)
    \/ CteRecurse
    \/ CteSelect

(* session.execute returns only when the query has run: a round that can be
   taken is taken. *)
SpecCycle ==
    InitCycle /\ [][NextCycle]_vars /\ WF_vars(CteRecurse) /\ WF_vars(CteSelect)

-----------------------------------------------------------------------------
(* The score expression on its own: two comment_stats rows, each a comment
   count and a deviation (by its square, any fraction within the bounds),
   and the controversy_score the SELECT computes for each. *)
StatsSamples ==
    {[total_comments |-> n,
      stddev_comment_length |-> [null |-> FALSE, square_num |-> num, square_den |-> den]] :
        n \in 1..MaxScoreCount, num \in 0..MaxScoreSquare, den \in 1..MaxScoreSquare}

InitScore ==
    /\ posts = <<>>
    /\ comments = <<>>
    /\ likes = <<>>
    /\ follows = {}
    /\ threadResult = NoThreadResult
    /\ topResult = NoTopResult
    /\ engagementResult = [called |-> FALSE, days |-> 0, rows |-> <<>>]
    /\ networkResult = [called |-> FALSE, rows |-> {}]
    /\ networkReport = NoReport("not_run")
    /\ controversialResult = [called |-> FALSE, min_comments |-> 0, min_stddev |-> 0,
                              rows |-> <<>>]
    /\ timelineResult = [called |-> FALSE, post_id |-> 0, rows |-> <<>>]
    /\ contentReport = [status |-> "not_run"]
    /\ summaryResult = [called |-> FALSE, rows |-> <<>>]
    /\ cteRun = NoCteRun
    /\ scoreCase \in {[applied |-> FALSE, stats |-> <<a, b>>, scores |-> <<>>] :
                        a \in StatsSamples, b \in StatsSamples}

ApplyControversyScore ==
    /\ ~scoreCase.applied
    /\ scoreCase' = [applied |-> TRUE, stats |-> scoreCase.stats,
                     scores |-> <<ControversyScore(scoreCase.stats[1]),
                                  ControversyScore(scoreCase.stats[2])>>]
    /\ UNCHANGED <<tables, threadResult, topResult, engagementResult, networkResult,
                   networkReport, controversialResult, timelineResult, contentReport,
                   summaryResult, cteRun>>

NextScore == ApplyControversyScore

SpecScore == InitScore /\ [][NextScore]_vars

-----------------------------------------------------------------------------
(* Properties of analyze_thread_depth *)

(* The number of comments on the parent-link path from comment c up to its
   top-level ancestor. *)
RECURSIVE PathLength(_)
PathLength(c) ==
    IF comments[c].parent_comment_id = NULL THEN 1
    ELSE 1 + PathLength(comments[c].parent_comment_id)

CommentsOf(p) == {c \in 1..Len(comments) : comments[c].post_id = p}

ResultRows(result) == Range(result.rows)

(* C1: every comment has one depth, 1 without a parent and its parent's
   depth plus 1 otherwise, and the max_thread_depth reported for a post is
   the length of the longest parent-link path among the post's comments. *)
C1_DepthFollowsParentLinks ==
    LET threads == comment_threads
        rowsOf(c) == {ct \in threads : ct.comment_id = c}
        depth(c) == (CHOOSE ct \in rowsOf(c) : TRUE).depth
    IN  /\ \A c \in 1..Len(comments) :
              /\ Cardinality(rowsOf(c)) = 1
              /\ comments[c].parent_comment_id = NULL => depth(c) = 1
              /\ comments[c].parent_comment_id # NULL =>
                    depth(c) = depth(comments[c].parent_comment_id) + 1
        /\ \A row \in ResultRows(threadResult) :
              row.max_thread_depth
                = Max({PathLength(c) : c \in CommentsOf(row.post_id)})

(* C1 witness: a reported post whose deepest thread is a reply to a reply,
   beside a shorter thread of the same post. *)
C1_Witness ==
    \E row \in ResultRows(threadResult) :
        /\ row.max_thread_depth = 3
        /\ row.total_comments = 4

(* C2 as stated: avg_thread_depth is exactly the arithmetic mean of the
   depths of all comments of the post, and total_comments their number. *)
C2_AvgIsExactMean ==
    \A row \in ResultRows(threadResult) :
        LET cs == CommentsOf(row.post_id)
        IN  /\ row.total_comments = Cardinality(cs)
            /\ row.avg_thread_depth * Cardinality(cs)
                 = 100 * SumOver(cs, [c \in cs |-> PathLength(c)])

(* C2 amended: avg_thread_depth is the arithmetic mean of the depths of all
   comments of the post (each counted once, not only leaves) rounded to two
   decimal places, halves up, and total_comments is their number. *)
C2_AvgIsMeanRoundedToHundredths ==
    \A row \in ResultRows(threadResult) :
        LET cs == CommentsOf(row.post_id)
            n == Cardinality(cs)
            err == row.avg_thread_depth * n
                     - 100 * SumOver(cs, [c \in cs |-> PathLength(c)])
        IN  /\ row.total_comments = n
            /\ -n < 2 * err
            /\ 2 * err <= n

(* C2 witness: a reported post of three comments at depths 1, 2 and 2, whose
   mean 5/3 is reported as 1.67. *)
C2_Witness ==
    \E row \in ResultRows(threadResult) :
        /\ row.total_comments = 3
        /\ row.max_thread_depth = 2
        /\ row.avg_thread_depth = 167

(* C3: the posts returned for min_depth are exactly the posts whose maximum
   comment depth is at least min_depth. *)
C3_ReturnsExactlyDeepPosts ==
    threadResult.called =>
        /\ \A i, j \in DOMAIN threadResult.rows :
              i # j => threadResult.rows[i].post_id # threadResult.rows[j].post_id
        /\ {row.post_id : row \in ResultRows(threadResult)}
             = {p \in 1..Len(posts) :
                  /\ CommentsOf(p) # {}
                  /\ Max({PathLength(c) : c \in CommentsOf(p)}) >= threadResult.min_depth}

(* C3 witness: with min_depth 2, a post of max depth 3 is returned and a
   post of max depth 1 is not. *)
C3_Witness ==
    /\ threadResult.called
    /\ threadResult.min_depth = 2
    /\ \E p, q \in 1..Len(posts) :
          /\ CommentsOf(p) # {} /\ CommentsOf(q) # {}
          /\ Max({PathLength(c) : c \in CommentsOf(p)}) = 3
          /\ Max({PathLength(c) : c \in CommentsOf(q)}) = 1
          /\ \E row \in ResultRows(threadResult) : row.post_id = p
          /\ \A row \in ResultRows(threadResult) : row.post_id # q

(* a sorts ahead of b: deeper, or as deep with more comments, or equal on
   both with the lower post id *)
ThreadSortsAhead(a, b) ==
    \/ a.max_thread_depth > b.max_thread_depth
    \/ /\ a.max_thread_depth = b.max_thread_depth
       /\ a.total_comments > b.total_comments
    \/ /\ a.max_thread_depth = b.max_thread_depth
       /\ a.total_comments = b.total_comments
       /\ a.post_id < b.post_id

(* C14: the rows come sorted by max_thread_depth descending, then
   total_comments descending, then post id ascending. *)
C14_ThreadOrderedWithIdTieBreak ==
    \A i, j \in DOMAIN threadResult.rows :
        i < j => ThreadSortsAhead(threadResult.rows[i], threadResult.rows[j])

-----------------------------------------------------------------------------
(* Properties of identify_controversial_posts *)

(* The sample standard deviation of the comment lengths of post p by its
   square, the squared deviations from the mean over N - 1, and 0 for fewer
   than two comments: with S the sum of the lengths, the squared deviations
   sum to the sum of (N * x - S)^2 over N^2. *)
SampleDeviation(p) ==
    LET cs == CommentsOf(p)
        n == Cardinality(cs)
        total == SumOver(cs, [c \in cs |-> comments[c].comment_length])
        dev(c) == n * comments[c].comment_length - total
    IN  IF n < 2 THEN [square_num |-> 0, square_den |-> 1]
        ELSE [square_num |-> SumOver(cs, [c \in cs |-> dev(c) * dev(c)]),
              square_den |-> n * n * (n - 1)]

(* the root x is at least the integer bound *)
DeviationAtLeast(x, bound) ==
    bound <= 0 \/ x.square_num >= bound * bound * x.square_den

SameRoot(a, b) == a.square_num * b.square_den = b.square_num * a.square_den

RootAtMost(a, b) == a.square_num * b.square_den <= b.square_num * a.square_den

(* root a = root b * k *)
RootIsMultiple(a, b, k) ==
    a.square_num * b.square_den = b.square_num * k * k * a.square_den

(* C15: the posts returned for (minComments, minStddev) are exactly the
   posts with at least minComments comments whose length deviation is at
   least minStddev, each with controversy_score = deviation * total_comments,
   in descending controversy_score. *)
C15_ReturnsExactlyControversial ==
    controversialResult.called =>
        /\ {row.post_id : row \in ResultRows(controversialResult)}
             = {p \in 1..Len(posts) :
                  /\ Cardinality(CommentsOf(p)) >= controversialResult.min_comments
                  /\ DeviationAtLeast(SampleDeviation(p), controversialResult.min_stddev)}
        /\ \A row \in ResultRows(controversialResult) :
              /\ ~row.controversy_score.null
              /\ row.total_comments = Cardinality(CommentsOf(row.post_id))
              /\ RootIsMultiple(row.controversy_score, SampleDeviation(row.post_id),
                                row.total_comments)
        /\ \A i, j \in DOMAIN controversialResult.rows :
              i < j => RootAtMost(controversialResult.rows[j].controversy_score,
                                  controversialResult.rows[i].controversy_score)

(* C16: controversy_score does not decrease when the deviation grows with
   the comment count fixed, nor when the comment count grows with the
   deviation fixed. *)
C16_ScoreMonotone ==
    scoreCase.applied =>
        LET a == scoreCase.stats[1]
            b == scoreCase.stats[2]
        IN  /\ (/\ a.total_comments = b.total_comments
                /\ RootAtMost(a.stddev_comment_length, b.stddev_comment_length))
                  => RootAtMost(scoreCase.scores[1], scoreCase.scores[2])
            /\ (/\ SameRoot(a.stddev_comment_length, b.stddev_comment_length)
                /\ a.total_comments <= b.total_comments)
                  => RootAtMost(scoreCase.scores[1], scoreCase.scores[2])

(* C16 witness: two posts of the same non-zero deviation, the second with
   more comments and the strictly higher score. *)
C16_Witness ==
    /\ scoreCase.applied
    /\ scoreCase.stats[1].stddev_comment_length.square_num > 0
    /\ SameRoot(scoreCase.stats[1].stddev_comment_length,
                scoreCase.stats[2].stddev_comment_length)
    /\ scoreCase.stats[1].total_comments < scoreCase.stats[2].total_comments
    /\ ~RootAtMost(scoreCase.scores[2], scoreCase.scores[1])

(* C17: the deviation reported is the sample standard deviation (divisor
   N - 1), taken as 0 for a post with exactly one comment: such a post has
   deviation 0 and score 0 and is returned when minComments <= 1 and
   minStddev <= 0. *)
C17_SingleCommentDeviationZero ==
    controversialResult.called =>
        /\ \A row \in ResultRows(controversialResult) :
              /\ ~row.stddev_comment_length.null
              /\ SameRoot(row.stddev_comment_length, SampleDeviation(row.post_id))
        /\ (controversialResult.min_comments <= 1 /\ controversialResult.min_stddev <= 0) =>
              \A p \in 1..Len(posts) :
                  Cardinality(CommentsOf(p)) = 1 =>
                      \E row \in ResultRows(controversialResult) :
                          /\ row.post_id = p
                          /\ ~row.stddev_comment_length.null
                          /\ row.stddev_comment_length.square_num = 0
                          /\ ~row.controversy_score.null
                          /\ row.controversy_score.square_num = 0

-----------------------------------------------------------------------------
(* Properties of get_post_activity_timeline *)

PostLikesOf(p) == {l \in 1..Len(likes) : likes[l].post_id = p}

(* the likes of post p on calendar day d *)
LikesOnDay(p, d) == {l \in PostLikesOf(p) : likes[l].like_time \div TicksPerDay = d}

(* C18: the timeline of a post holds every comment and every like of that
   post, once each, in ascending timestamp; a like event carries the number
   of likes of that post on the like's calendar day (the same on every like
   of the day, not a running count) and a comment event carries no like
   count. *)
C18_TimelineMergesCommentsAndLikes ==
    timelineResult.called =>
        LET p == timelineResult.post_id
            rows == timelineResult.rows
        IN  /\ Len(rows) = Cardinality(CommentsOf(p)) + Cardinality(PostLikesOf(p))
            /\ {<<rows[i].activity_type, rows[i].row_id>> : i \in DOMAIN rows}
                 = ({"comment"} \X CommentsOf(p)) \cup ({"like"} \X PostLikesOf(p))
            /\ \A i, j \in DOMAIN rows : i < j => rows[i].timestamp <= rows[j].timestamp
            /\ \A i \in DOMAIN rows :
                  IF rows[i].activity_type = "comment"
                  THEN /\ rows[i].timestamp = comments[rows[i].row_id].comment_time
                       /\ rows[i].like_count = NULL
                  ELSE /\ rows[i].timestamp = likes[rows[i].row_id].like_time
                       /\ rows[i].like_count
                            = Cardinality(LikesOnDay(p, rows[i].timestamp \div TicksPerDay))

(* C18 witness: a timeline with a comment, a like of yesterday carrying 1
   and two likes of today, at different times, both carrying 2. *)
C18_Witness ==
    /\ timelineResult.called
    /\ \E i, j, k, c \in DOMAIN timelineResult.rows :
          LET rows == timelineResult.rows
          IN  /\ rows[c].activity_type = "comment"
              /\ rows[i].activity_type = "like" /\ rows[i].like_count = 1
              /\ rows[j].activity_type = "like" /\ rows[j].like_count = 2
              /\ rows[k].activity_type = "like" /\ rows[k].like_count = 2
              /\ rows[i].timestamp < rows[j].timestamp
              /\ rows[j].timestamp < rows[k].timestamp

-----------------------------------------------------------------------------
(* Properties of the parameters *)

(* C19: a malformed parameter (min_depth below 1 to analyze_thread_depth, a
   negative limit to get_top_contributors) is rejected before any query is
   issued: no query has run with such a parameter. *)
C19_MalformedParametersRejected ==
    /\ threadResult.called => threadResult.min_depth >= 1
    /\ topResult.called => topResult.limit >= 0

(* C20: on every snapshot, one with no post, no comment or no follow edge
   included, each analysis (thread depth and its report, controversial
   posts, post engagement, follower network and the network density)
   completes, with an empty result where there is nothing to return,
   instead of raising. *)
C20_EmptySnapshotsComplete ==
    /\ contentReport.status \in {"not_run", "ok"}
    /\ networkReport.status \in {"not_run", "ok"}
    /\ (threadResult.called /\ comments = <<>>) => threadResult.rows = <<>>
    /\ (controversialResult.called /\ comments = <<>>) => controversialResult.rows = <<>>
    /\ (engagementResult.called /\ posts = <<>>) => engagementResult.rows = <<>>
    /\ (networkResult.called /\ follows = {}) => networkResult.rows = {}

-----------------------------------------------------------------------------
(* Properties of get_post_engagement *)

FollowersOf(u) == {f \in follows : f.followee_id = u}

(* C4 as stated: engagement_rate is null exactly when the author has no
   follower, and otherwise is exactly (like_count + comment_count) * 100 /
   follower_count. *)
C4_RateIsExactRatio ==
    \A row \in ResultRows(engagementResult) :
        /\ row.engagement_rate.null <=> FollowersOf(row.author_id) = {}
        /\ ~row.engagement_rate.null =>
              row.engagement_rate.value * row.follower_count
                = (row.like_count + row.comment_count) * 100 * 100

(* C4 amended: engagement_rate is null exactly when the author has no
   follower (no division by zero happens), and otherwise is
   (like_count + comment_count) * 100 / follower_count rounded to two decimal
   places, halves up. *)
C4_RateIsRatioRoundedToHundredths ==
    \A row \in ResultRows(engagementResult) :
        LET err == row.engagement_rate.value * row.follower_count
                     - (row.like_count + row.comment_count) * 100 * 100
        IN  /\ row.engagement_rate.null <=> FollowersOf(row.author_id) = {}
            /\ ~row.engagement_rate.null =>
                  /\ row.follower_count = Cardinality(FollowersOf(row.author_id))
                  /\ -row.follower_count < 2 * err
                  /\ 2 * err <= row.follower_count

(* C4 witness: a post with one like and three followers of its author, whose
   rate 33.33... is reported as 33.33. *)
C4_Witness ==
    \E row \in ResultRows(engagementResult) :
        /\ row.follower_count = 3
        /\ row.like_count + row.comment_count = 1
        /\ ~row.engagement_rate.null
        /\ row.engagement_rate.value = 3333

(* The combined count the rank is taken over. *)
Combined(row) == row.like_count + row.comment_count

(* C11: engagement_rank is a dense rank over like_count +
   comment_count descending: equal combined counts share a rank, the highest
   has rank 1, and the ranks in use are consecutive, leaving no gap after a
   tie. *)
C11_RankIsDense ==
    LET rows == ResultRows(engagementResult)
    IN  /\ \A a, b \in rows :
              Combined(a) = Combined(b) => a.engagement_rank = b.engagement_rank
        /\ \A a \in rows :
              (\A b \in rows : Combined(b) <= Combined(a)) => a.engagement_rank = 1
        /\ {row.engagement_rank : row \in rows} = 1..Cardinality({Combined(row) : row \in rows})

(* C12: the rows come in descending engagement_rate, and every row whose
   rate is null comes after every row whose rate is defined. *)
C12_OrderedByRateNullsLast ==
    \A i, j \in DOMAIN engagementResult.rows :
        LET a == engagementResult.rows[i].engagement_rate
            b == engagementResult.rows[j].engagement_rate
        IN  i < j =>
              /\ ~(a.null /\ ~b.null)
              /\ (~a.null /\ ~b.null) => a.value >= b.value

LikersOf(p) == {likes[l].user_id : l \in {k \in 1..Len(likes) : likes[k].post_id = p}}

CommentersOf(p) == {comments[c].user_id : c \in CommentsOf(p)}

(* C13: like_count is the number of distinct users who liked the post,
   comment_count the number of distinct users who commented on it (a user
   with several comments counts once), and follower_count the number of
   distinct followers of its author, each whatever the sizes of the other
   two. *)
C13_CountsAreDistinctUsers ==
    \A row \in ResultRows(engagementResult) :
        /\ row.like_count = Cardinality(LikersOf(row.post_id))
        /\ row.comment_count = Cardinality(CommentersOf(row.post_id))
        /\ row.follower_count = Cardinality(FollowersOf(row.author_id))

-----------------------------------------------------------------------------
(* Properties of get_user_engagement_summary *)

PostsBy(u) == {p \in 1..Len(posts) : posts[p].user_id = u}

LikesReceived(u) ==
    {l \in 1..Len(likes) : likes[l].post_id # NULL /\ likes[l].post_id \in PostsBy(u)}

CommentsReceived(u) == {c \in 1..Len(comments) : comments[c].post_id \in PostsBy(u)}

(* the counts of a summary row are those of the tables *)
SummaryCounts(row) ==
    /\ row.post_count = Cardinality(PostsBy(row.user_id))
    /\ row.likes_received = Cardinality(LikesReceived(row.user_id))
    /\ row.comments_received = Cardinality(CommentsReceived(row.user_id))
    /\ row.follower_count = Cardinality(FollowersOf(row.user_id))

(* C21 as stated: the summary has one row per user, users without posts
   included; likes_received and comments_received count the distinct likes
   and comments on the user's posts; avg_like_rate is exactly
   likes_received * 100 / follower_count and avg_comment_rate exactly
   comments_received * 100 / follower_count, both null exactly when
   follower_count is 0. *)
C21_SummaryRatesExact ==
    summaryResult.called =>
        /\ Len(summaryResult.rows) = Cardinality(Users)
        /\ {row.user_id : row \in ResultRows(summaryResult)} = Users
        /\ \A row \in ResultRows(summaryResult) :
              /\ SummaryCounts(row)
              /\ row.avg_like_rate.null <=> row.follower_count = 0
              /\ row.avg_comment_rate.null <=> row.follower_count = 0
              /\ row.follower_count # 0 =>
                    /\ row.avg_like_rate.value * row.follower_count
                         = row.likes_received * 100 * 100
                    /\ row.avg_comment_rate.value * row.follower_count
                         = row.comments_received * 100 * 100

(* the rate, in hundredths, is count * 100 / divisor rounded to two decimal
   places, halves up *)
IsRoundedRate(rate, count, divisor) ==
    LET err == rate * divisor - count * 100 * 100
    IN  -divisor < 2 * err /\ 2 * err <= divisor

(* C21 amended: as stated, with each rate rounded to two decimal places. *)
C21_SummaryRatesRounded ==
    summaryResult.called =>
        /\ Len(summaryResult.rows) = Cardinality(Users)
        /\ {row.user_id : row \in ResultRows(summaryResult)} = Users
        /\ \A row \in ResultRows(summaryResult) :
              /\ SummaryCounts(row)
              /\ row.avg_like_rate.null <=> row.follower_count = 0
              /\ row.avg_comment_rate.null <=> row.follower_count = 0
              /\ row.follower_count # 0 =>
                    /\ IsRoundedRate(row.avg_like_rate.value, row.likes_received,
                                     row.follower_count)
                    /\ IsRoundedRate(row.avg_comment_rate.value, row.comments_received,
                                     row.follower_count)

(* C21 witness: a user with three followers whose one post received one
   like, rate 33.33, beside a user with no post and one with no follower. *)
C21_Witness ==
    /\ summaryResult.called
    /\ \E row \in ResultRows(summaryResult) :
          /\ row.follower_count = 3
          /\ row.likes_received = 1
          /\ row.avg_like_rate.value = 3333
          /\ row.avg_comment_rate.value = 0
    /\ \E row \in ResultRows(summaryResult) :
          row.post_count = 0 /\ row.avg_like_rate.null

-----------------------------------------------------------------------------
(* Properties of the recursive expansion *)

(* The depth of comment c when its parent links lead to a parentless
   comment within fuel steps, 0 when they do not. *)
RECURSIVE ChainDepth(_, _)
ChainDepth(c, fuel) ==
    IF fuel = 0 THEN 0
    ELSE IF comments[c].parent_comment_id = NULL THEN 1
    ELSE LET d == ChainDepth(comments[c].parent_comment_id, fuel - 1)
         IN  IF d = 0 THEN 0 ELSE d + 1

AnchoredDepth(c) == ChainDepth(c, Len(comments))

(* the comments reachable from a top-level comment *)
Anchored == {c \in 1..Len(comments) : AnchoredDepth(c) # 0}

(* every comment has at most one row in the result so far, and no more
   rounds have run than the table has comments *)
ExpandedAtMostOnce ==
    /\ \A a \in cteRun.rows, b \in cteRun.rows : a.comment_id = b.comment_id => a = b
    /\ cteRun.rounds <= Len(comments)

(* the finished result has a row, with its depth, for exactly the anchored
   comments, and the reported figures are taken over those alone *)
UnanchoredOmitted ==
    cteRun.state = "done" =>
        /\ {ct.comment_id : ct \in cteRun.rows} = Anchored
        /\ \A ct \in cteRun.rows : ct.depth = AnchoredDepth(ct.comment_id)
        /\ Len(threadResult.rows)
             = IF Anchored # {}
                  /\ Max({AnchoredDepth(c) : c \in Anchored}) >= cteRun.min_depth
               THEN 1 ELSE 0
        /\ \A row \in ResultRows(threadResult) :
              LET n == Cardinality(Anchored)
                  err == row.avg_thread_depth * n
                           - 100 * SumOver(Anchored,
                                           [c \in Anchored |-> AnchoredDepth(c)])
              IN  /\ row.total_comments = n
                  /\ row.max_thread_depth = Max({AnchoredDepth(c) : c \in Anchored})
                  /\ -n < 2 * err
                  /\ 2 * err <= n

(* C22: the recursive expansion of analyze_thread_depth terminates on every
   finite comments table, with or without a cycle of parent links; every
   comment is expanded at most once; comments not reachable from a
   top-level comment are left out of total_comments, max and average
   depth. *)
C22_ExpansionTerminates ==
    /\ [](ExpandedAtMostOnce /\ UnanchoredOmitted)
    /\ (cteRun.state = "running") ~> (cteRun.state = "done")

(* C22 witness: the query has finished on a table in which two comments are
   each other's parent and a third hangs under them, beside one top-level
   comment, the only one counted. *)
C22_Witness ==
    /\ cteRun.state = "done"
    /\ Len(comments) = 4
    /\ \E a \in 1..4, b \in 1..4, c \in 1..4 :
          /\ a # b
          /\ comments[a].parent_comment_id = b
          /\ comments[b].parent_comment_id = a
          /\ comments[c].parent_comment_id = a
          /\ c # b
    /\ \E row \in ResultRows(threadResult) :
          row.total_comments = 1 /\ row.max_thread_depth = 1

-----------------------------------------------------------------------------
(* Properties of the network analysis *)

NetworkUsers == {f.follower_id : f \in follows} \cup {f.followee_id : f \in follows}

(* a has liked or commented on a post authored by b *)
Interacted(a, b) ==
    \/ \E l \in 1..Len(likes) :
          /\ likes[l].user_id = a
          /\ likes[l].post_id # NULL
          /\ posts[likes[l].post_id].user_id = b
    \/ \E c \in 1..Len(comments) :
          /\ comments[c].user_id = a
          /\ posts[comments[c].post_id].user_id = b

(* C5: once the network analysis has run on a network with edges, it has
   reported the density edgeCount / (nodeCount * (nodeCount - 1)) over the
   distinct users that follow or are followed. *)
C5_DensityIsEdgesOverOrderedPairs ==
    (networkReport.status # "not_run" /\ follows # {}) =>
        /\ networkReport.status = "ok"
        /\ networkReport.num_edges = Cardinality(follows)
        /\ networkReport.num_users = Cardinality(NetworkUsers)
        /\ networkReport.max_possible_edges
             = Cardinality(NetworkUsers) * (Cardinality(NetworkUsers) - 1)

(* C6: once the network analysis has run, it has listed as ghost followers
   exactly the users A with an edge A follows B such that A never liked or
   commented on a post of B (so A is listed while it has not interacted, and
   is not listed for that edge once it has liked a post of B). *)
C6_GhostFollowersListed ==
    networkReport.status # "not_run" =>
        /\ networkReport.status = "ok"
        /\ networkReport.ghost_followers
             = {f.follower_id : f \in {g \in follows :
                                         ~Interacted(g.follower_id, g.followee_id)}}

-----------------------------------------------------------------------------
(* Properties of get_top_contributors *)

WindowStart(days) == Now * TicksPerDay - days * TicksPerDay

PostsIn(u, days) ==
    {p \in 1..Len(posts) :
        posts[p].user_id = u /\ posts[p].post_time >= WindowStart(days)}

CommentsIn(u, days) ==
    {c \in 1..Len(comments) :
        comments[c].user_id = u /\ comments[c].comment_time >= WindowStart(days)}

LikesIn(u, days) ==
    {l \in 1..Len(likes) :
        likes[l].user_id = u /\ likes[l].like_time >= WindowStart(days)}

FollowingIn(u, days) ==
    {f \in follows : f.follower_id = u /\ f.follow_time >= WindowStart(days)}

FollowersIn(u, days) ==
    {f \in follows : f.followee_id = u /\ f.follow_time >= WindowStart(days)}

(* a ranks ahead of b: higher score, or equal score and lower user id *)
Outranks(a, b) ==
    \/ a.activity_score > b.activity_score
    \/ a.activity_score = b.activity_score /\ a.user_id < b.user_id

(* C7: the result holds at most limit users, in descending activity_score
   with equal scores in ascending user id, and no user left out of the
   result outranks a user in it. *)
C7_TopOrderedWithIdTieBreak ==
    topResult.called =>
        /\ Len(topResult.rows) <= topResult.limit
        /\ \A i, j \in DOMAIN topResult.rows :
              i < j => Outranks(topResult.rows[i], topResult.rows[j])
        /\ \A out \in TopRows(topResult.days) \ ResultRows(topResult) :
              \A in \in ResultRows(topResult) : ~Outranks(out, in)

(* C8: a call repeated with the same parameters on the unchanged tables
   returns the same rows in the same order. *)
C8_RepeatedCallSameResult ==
    [][(/\ topResult.called
        /\ topResult'.called
        /\ topResult'.days = topResult.days
        /\ topResult'.limit = topResult.limit
        /\ tables' = tables) => topResult'.rows = topResult.rows]_vars

(* C9: every signal counts exactly the items of the user whose timestamp
   lies within the last days days, so an older item adds nothing to any
   count nor to the score. *)
C9_WindowAppliedToEverySignal ==
    \A row \in ResultRows(topResult) :
        LET u == row.user_id
            d == topResult.days
        IN  /\ row.post_count = Cardinality(PostsIn(u, d))
            /\ row.comment_count = Cardinality(CommentsIn(u, d))
            /\ row.like_count = Cardinality(LikesIn(u, d))
            /\ row.new_following = Cardinality(FollowingIn(u, d))
            /\ row.new_followers = Cardinality(FollowersIn(u, d))

(* C9 witness: with a lookback of one day, a returned user with a stale and
   a fresh post and a stale comment is credited one post and no comment. *)
C9_Witness ==
    /\ topResult.called
    /\ topResult.days = 1
    /\ \E row \in ResultRows(topResult) :
          /\ \E p \in 1..Len(posts) :
                posts[p].user_id = row.user_id /\ posts[p].post_time < WindowStart(1)
          /\ \E c \in 1..Len(comments) :
                comments[c].user_id = row.user_id /\ comments[c].comment_time < WindowStart(1)
          /\ row.post_count = 1
          /\ row.comment_count = 0
          /\ row.activity_score = 3

(* C10: activity_score is posts * 3 + comments * 2 + likes * 1 + new
   followers * 5 over the numbers of distinct items of each kind, whatever
   the numbers of items of the other kinds; new_following adds nothing. *)
C10_ScoreIsWeightedDistinctCounts ==
    \A row \in ResultRows(topResult) :
        LET u == row.user_id
            d == topResult.days
        IN  /\ row.activity_score
                 = Cardinality(PostsIn(u, d)) * 3 + Cardinality(CommentsIn(u, d)) * 2
                     + Cardinality(LikesIn(u, d)) * 1 + Cardinality(FollowersIn(u, d)) * 5
            /\ row.activity_score
                 = row.post_count * 3 + row.comment_count * 2
                     + row.like_count * 1 + row.new_followers * 5

(* C10 witness: a returned user with two posts, one comment and one new
   followee scores 2 * 3 + 1 * 2 = 8. *)
C10_Witness ==
    \E row \in ResultRows(topResult) :
        /\ row.post_count = 2
        /\ row.comment_count = 1
        /\ row.new_following = 1
        /\ row.activity_score = 8

====
